---- MODULE Spec2Model ----
\* Model of the Snow White production recorder (src/main.py): two tables
\* (termeles, dwarf_as_workers), the DatabaseHandler insert paths, the HTTP
\* handlers that wrap them, the latest-record queries, the CSV exports and
\* the plot, served by one event loop. A handler is a coroutine without an
\* await and runs as one step, except where worker threads can observe it:
\* an export or plot handler opens (truncates) its fixed path and later closes
\* it, and the FileResponse it returns is sent afterwards in steps of its own
\* (os.stat in a worker thread, the headers, the read in a worker thread).
EXTENDS Bags, Integers, Sequences, FiniteSets, TLC

\* --------------------------------------------------------------- bounds
\* Largest number of requests that change the state in one run of the
\* server: rows inserted plus export and plot files written. The requests
\* that write a file may all be in progress at once.
MaxAccepted == 4

\* ------------------------------------------------------------ characters
\* A date string is a sequence of character codes: the digits 0..9 stand for
\* themselves, Dash is '-' and Space is ' '.
Dash == 10
Space == 11

IsDigit(c) == c \in 0..9

\* ------------------------------------------------------------- constants
DATA_MUST_BE_POSITIVE == "Positive values are needed!"
NO_DATA == "No data found"
INSERTED == "Data inserted successfully!"
DWARF_INSERTED == "Dwarf data inserted successfully!"
DATABASE_ERROR == "Database error"
INTERNAL_ERROR == "Internal Server Error"

TERMELES_CSV == "ossztermeles_export.csv"
DWARF_CSV == "egyeni_termeles_export.csv"
PLOT_PNG == "termeles_plot.png"
Paths == {TERMELES_CSV, DWARF_CSV, PLOT_PNG}

\* The header rows, written without the accents of the source's labels.
TermelesHeader ==
    <<"ID", "Ev", "Honap", "Nap", "Aranytermeles", "Ezusttermeles", "Gyemanttermeles">>
DwarfHeader == <<"ID", "Name", "Date", "Gold", "Silver", "Diamond">>

\* The two stores the process can be connected to: the file the default
\* connection string names, and the store TEST_DATABASE_URL names when it is
\* set to something else.
DEFAULT_DB == "sqlite:///termeles.db"
ENV_DB == "TEST_DATABASE_URL"
Stores == {DEFAULT_DB, ENV_DB}

\* ------------------------------------------------------ datetime.strptime
IsLeap(y) == (y % 4 = 0 /\ y % 100 # 0) \/ y % 400 = 0

DaysInMonth(y, m) ==
    IF m = 2 THEN (IF IsLeap(y) THEN 29 ELSE 28)
    ELSE IF m \in {4, 6, 9, 11} THEN 30 ELSE 31

At(s, i) == IF i \in 1..Len(s) THEN s[i] ELSE Dash

\* %m at position i: the alternatives 1[0-2] | 0[1-9] | [1-9], first match.
\* <<value, characters consumed>>, <<0, 0>> when none matches.
MatchMonth(s, i) ==
    IF i > Len(s) THEN <<0, 0>>
    ELSE IF s[i] = 1 /\ i < Len(s) /\ At(s, i + 1) \in 0..2 THEN <<10 + s[i + 1], 2>>
    ELSE IF s[i] = 0 /\ i < Len(s) /\ At(s, i + 1) \in 1..9 THEN <<s[i + 1], 2>>
    ELSE IF s[i] \in 1..9 THEN <<s[i], 1>>
    ELSE <<0, 0>>

\* %d at position i: 3[01] | [12]\d | 0[1-9] | [1-9] | ' '[1-9], first match.
MatchDay(s, i) ==
    IF i > Len(s) THEN <<0, 0>>
    ELSE IF s[i] = 3 /\ i < Len(s) /\ At(s, i + 1) \in 0..1 THEN <<30 + s[i + 1], 2>>
    ELSE IF s[i] \in 1..2 /\ i < Len(s) /\ IsDigit(At(s, i + 1))
        THEN <<10 * s[i] + s[i + 1], 2>>
    ELSE IF s[i] = 0 /\ i < Len(s) /\ At(s, i + 1) \in 1..9 THEN <<s[i + 1], 2>>
    ELSE IF s[i] \in 1..9 THEN <<s[i], 1>>
    ELSE IF s[i] = Space /\ i < Len(s) /\ At(s, i + 1) \in 1..9 THEN <<s[i + 1], 2>>
    ELSE <<0, 0>>

NoDate == [ok |-> FALSE, year |-> 0, month |-> 0, day |-> 0]

\* datetime.strptime(datum, "%Y-%m-%d"): four digits, '-', month, '-', day,
\* nothing left over, and a date of the calendar. ok = FALSE is ValueError.
strptime(datum) ==
    IF Len(datum) < 5 \/ (\E i \in 1..4 : ~IsDigit(datum[i])) \/ datum[5] # Dash
    THEN NoDate
    ELSE
      LET y == 1000 * datum[1] + 100 * datum[2] + 10 * datum[3] + datum[4]
          m == MatchMonth(datum, 6)
          p == 6 + m[2]
          d == MatchDay(datum, p + 1)
      IN  IF m[2] = 0 \/ At(datum, p) # Dash \/ p > Len(datum) THEN NoDate
          ELSE IF d[2] = 0 \/ p + d[2] # Len(datum) THEN NoDate
          ELSE IF y < 1 \/ d[1] > DaysInMonth(y, m[1]) THEN NoDate
          ELSE [ok |-> TRUE, year |-> y, month |-> m[1], day |-> d[1]]

\* ------------------------------------------------------------ formatting
RECURSIVE Digits(_)
\* str(n) for n >= 0, as character codes.
Digits(n) == IF n < 10 THEN <<n>> ELSE Digits(n \div 10) \o <<n % 10>>

RECURSIVE ZeroPad(_, _)
\* Left padding with '0' to width w (the 0w of a format specification).
ZeroPad(s, w) == IF Len(s) >= w THEN s ELSE ZeroPad(<<0>> \o s, w)

\* str(record.date) of a stored date: YYYY-MM-DD, every field padded.
DateIso(y, m, d) ==
    ZeroPad(Digits(y), 4) \o <<Dash>> \o ZeroPad(Digits(m), 2) \o <<Dash>>
        \o ZeroPad(Digits(d), 2)

\* f"{r.ev}-{r.honap:02d}-{r.nap:02d}": the year is not padded.
PlotLabel(r) ==
    Digits(r.ev) \o <<Dash>> \o ZeroPad(Digits(r.honap), 2) \o <<Dash>>
        \o ZeroPad(Digits(r.nap), 2)

\* ------------------------------------------------------------------ state
VARIABLES
    DATABASE_URL,      \* the store the module-level engine and SessionLocal use
    tables_exist,      \* store -> whether create_all has made its tables
    termeles,          \* store -> rows of termeles, in rowid order
    dwarf_as_workers,  \* store -> rows of dwarf_as_workers, in rowid order
    files,             \* path -> content on disk, <<>> while absent or empty
    open_sessions,     \* sessions opened and not yet closed
    request,           \* the request handled last
    response,          \* the answer it was given
    running,           \* the export or plot handler that has opened its file
                       \* and not yet closed it, Idle when there is none
    in_flight,         \* FileResponses returned by a handler, not yet done:
                       \* the path, what the handler read from the table and
                       \* wrote, how far the sending is, the size os.stat saw,
                       \* the body read from the file
    file_requests      \* number of requests that have written a file so far

vars == <<DATABASE_URL, tables_exist, termeles, dwarf_as_workers, files,
          open_sessions, request, response, running, in_flight,
          file_requests>>

\* ----------------------------------------------------------------- inputs
\* Quantities are integers; a diamond quantity counts hundredths (the form's
\* step is 0.01), so 50 is 0.5.
D_2025_01_04 == <<2, 0, 2, 5, Dash, 0, 1, Dash, 0, 4>>
D_2024_02_29 == <<2, 0, 2, 4, Dash, 0, 2, Dash, 2, 9>>
D_03_01_2025 == <<0, 3, Dash, 0, 1, Dash, 2, 0, 2, 5>>
D_2025_02_30 == <<2, 0, 2, 5, Dash, 0, 2, Dash, 3, 0>>

\* <<datum, gold, silver, diamond>> of the submissions tried.
Submissions ==
    { <<D_2025_01_04, 1, 2, 50>>,
      <<D_2024_02_29, 3, 0, 25>>,
      <<D_03_01_2025, 1, 2, 50>>,
      <<D_2025_02_30, 1, 2, 50>>,
      <<D_2025_01_04, -1, 2, 50>>,
      <<D_2025_01_04, 1, -2, 50>>,
      <<D_2025_01_04, 1, 2, -50>>,
      <<D_03_01_2025, -1, 2, 50>> }

Names == {"Kuka"}

\* step names the part of the request that was just done: "handler" (the
\* whole handler), or for a handler that writes a file "open" and "return",
\* and for the FileResponse it returned "stat", "headers", "file_open",
\* "dispatch_read", "read", "body" and "close".
Req(op, name, datum, gold, silver, diamond, commit_ok) ==
    [op |-> op, step |-> "handler", name |-> name, datum |-> datum, gold |-> gold,
     silver |-> silver, diamond |-> diamond, commit_ok |-> commit_ok]

Get(op) == Req(op, "", <<>>, 0, 0, 0, TRUE)

Step(op, step) == [Get(op) EXCEPT !.step = step]

\* What a step sends: content_length is the Content-Length header of a file
\* response, sent with its headers, and 0 in every other answer.
Resp(status, detail, data) ==
    [status |-> status, detail |-> detail, data |-> data, content_length |-> 0]

\* ------------------------------------------------------- DatabaseHandler
\* The store a DatabaseHandler() built without arguments connects to.
DatabaseHandler_db_url == DEFAULT_DB

\* Mutant: the comparison is off by one, so -1 passes.
check_value_off_by_one(value) == value < -1

\* check_value: TRUE when it raises ValueError.
check_value(value) == value < 0

RECURSIVE MaxId(_)
MaxId(rows) ==
    IF rows = <<>> THEN 0
    ELSE LET m == MaxId(Tail(rows)) IN IF Head(rows).id > m THEN Head(rows).id ELSE m

\* The key an INTEGER PRIMARY KEY column gets on insert: one more than the
\* largest key in the table.
autoincrement(rows) == MaxId(rows) + 1

\* Mutant: the table is rebuilt around the new row.
add_and_commit_recreate(rows, record) == <<record>>

\* session.add(record); session.commit(): the row joins the table.
add_and_commit(rows, record) == Append(rows, record)

\* Mutant: close() at the end of the try block, skipped when the handler
\* leaves by an exception.
insert_close_in_try(exit) ==
    IF exit \in {"raise_exception", "raise_http_400"} THEN 0 ELSE 1

\* finally: session.close() -- the number of sessions closed on the exit
\* taken ("return", "return_validation", "raise_http_400", "raise_exception").
insert_finally(exit) == 1

insert_termeles(rows, datum, arany, ezust, gyemant, commit_ok) ==
    LET datum_obj == strptime(datum)
        new_record == [id |-> autoincrement(rows),
                       ev |-> datum_obj.year, honap |-> datum_obj.month,
                       nap |-> datum_obj.day, aranytermeles |-> arany,
                       ezusttermeles |-> ezust, gyemanttermeles |-> gyemant]
        exit == IF ~datum_obj.ok THEN "return_validation"
                ELSE IF check_value(arany) \/ check_value(ezust) \/ check_value(gyemant)
                    THEN "return_validation"
                ELSE IF ~commit_ok THEN "raise_exception"
                ELSE "return"
    IN  [exit |-> exit,
         rows |-> IF exit = "return" THEN add_and_commit(rows, new_record) ELSE rows,
         opened |-> 1,
         closed |-> insert_finally(exit)]

insert_dwarf_as_worker(rows, name, datum, gold, silver, diamond, commit_ok) ==
    LET datum_obj == strptime(datum)
        new_dwarf == [id |-> autoincrement(rows), name |-> name,
                      date |-> <<datum_obj.year, datum_obj.month, datum_obj.day>>,
                      gold |-> gold, silver |-> silver, diamond |-> diamond]
        exit == IF ~datum_obj.ok THEN "raise_http_400"
                ELSE IF check_value(gold) \/ check_value(silver) \/ check_value(diamond)
                    THEN "raise_http_400"
                ELSE IF ~commit_ok THEN "raise_exception"
                ELSE "return"
    IN  [exit |-> exit,
         rows |-> IF exit = "return" THEN add_and_commit(rows, new_dwarf) ELSE rows,
         opened |-> 1,
         closed |-> insert_finally(exit)]

\* ------------------------------------------------------- submit handlers
\* str(e) of the HTTPException a handler raises inside its own try block:
\* "<status>: <detail>".
\* The outcomes of session.commit() a submission can meet: a submission that
\* is rejected before the commit meets none, and is drawn once.
CommitOutcomes(s) ==
    IF strptime(s[1]).ok /\ ~check_value(s[2]) /\ ~check_value(s[3]) /\ ~check_value(s[4])
    THEN BOOLEAN ELSE {TRUE}

HTTP_500_POSITIVE == "500: Positive values are needed!"
HTTP_400_POSITIVE == "400: Positive values are needed!"

\* The answer of POST /submit, given how insert_termeles left. The form
\* gives datum as str, arany and ezust as int, gyemant as float, so the
\* isinstance tests of the insert pass. Every exception of the try block,
\* the handler's own HTTPException included, becomes a 500 with str(e).
submit_data(exit, arany, ezust, gyemant) ==
    IF exit = "raise_exception" THEN Resp(500, DATABASE_ERROR, <<>>)
    ELSE IF arany < 0 \/ ezust < 0 \/ gyemant < 0
        THEN Resp(500, HTTP_500_POSITIVE, <<>>)
    ELSE Resp(200, INSERTED, <<>>)

\* Mutant: the HTTPException of the insert passes through unchanged.
submit_dwarf_reraise(exit, gold, silver, diamond) ==
    IF exit = "raise_exception" THEN Resp(500, DATABASE_ERROR, <<>>)
    ELSE IF exit = "raise_http_400" THEN Resp(400, DATA_MUST_BE_POSITIVE, <<>>)
    ELSE Resp(200, DWARF_INSERTED, <<>>)

\* The answer of POST /submit-dwarf, given how insert_dwarf_as_worker left:
\* except Exception catches the HTTPException(400) too.
submit_dwarf(exit, gold, silver, diamond) ==
    IF exit = "raise_exception" THEN Resp(500, DATABASE_ERROR, <<>>)
    ELSE IF exit = "raise_http_400" THEN Resp(500, HTTP_400_POSITIVE, <<>>)
    ELSE IF check_value(gold) \/ check_value(silver) \/ check_value(diamond)
        THEN Resp(500, DATA_MUST_BE_POSITIVE, <<>>)
    ELSE IF gold < 0 \/ silver < 0 \/ diamond < 0
        THEN Resp(500, HTTP_500_POSITIVE, <<>>)
    ELSE Resp(200, DWARF_INSERTED, <<>>)

\* -------------------------------------------------------- read handlers
\* finally: session.close() of a query, export or plot handler, on the exit
\* taken ("return", "raise_http_404", "raise_operational_error").
handler_finally(exit) == 1

\* .order_by(id.desc()).first(): the row with the largest id, as a sequence
\* of one row, or <<>> (None) for a table without rows.
first_by_id_desc(rows) ==
    IF rows = <<>> THEN <<>>
    ELSE <<rows[CHOOSE i \in 1..Len(rows) : rows[i].id = MaxId(rows)]>>

RECURSIVE Reverse(_)
Reverse(rows) == IF rows = <<>> THEN <<>> ELSE Reverse(Tail(rows)) \o <<Head(rows)>>

\* Mutant: the rows come newest first.
all_rows_newest_first(rows) == Reverse(rows)

\* .all() without order_by: the scan of the table in rowid order.
all_rows(rows) == rows

\* A statement on a store whose tables were never created raises
\* OperationalError, which no handler catches: the server answers 500.
query_production_data(exists, rows) ==
    LET record == first_by_id_desc(rows)
        exit == IF ~exists THEN "raise_operational_error"
                ELSE IF record = <<>> THEN "raise_http_404" ELSE "return"
    IN  [exit |-> exit,
         response |->
            IF exit = "raise_operational_error" THEN Resp(500, INTERNAL_ERROR, <<>>)
            ELSE IF exit = "raise_http_404" THEN Resp(404, NO_DATA, <<>>)
            ELSE Resp(200, "", <<record[1].aranytermeles, record[1].ezusttermeles,
                                  record[1].gyemanttermeles>>),
         opened |-> 1,
         closed |-> handler_finally(exit)]

query_dwarf_data(exists, rows) ==
    LET record == first_by_id_desc(rows)
        exit == IF ~exists THEN "raise_operational_error"
                ELSE IF record = <<>> THEN "raise_http_404" ELSE "return"
    IN  [exit |-> exit,
         response |->
            IF exit = "raise_operational_error" THEN Resp(500, INTERNAL_ERROR, <<>>)
            ELSE IF exit = "raise_http_404" THEN Resp(404, NO_DATA, <<>>)
            ELSE Resp(200, "", <<record[1].gold, record[1].silver, record[1].diamond>>),
         opened |-> 1,
         closed |-> handler_finally(exit)]

TermelesCsvRow(r) ==
    <<r.id, r.ev, r.honap, r.nap, r.aranytermeles, r.ezusttermeles, r.gyemanttermeles>>

DwarfCsvRow(r) ==
    <<r.id, r.name, DateIso(r.date[1], r.date[2], r.date[3]), r.gold, r.silver, r.diamond>>

\* The lines csv.writer puts in the file: the header, then a line per record.
termeles_csv(records) ==
    <<TermelesHeader>> \o [i \in 1..Len(records) |-> TermelesCsvRow(records[i])]

dwarf_csv(records) ==
    <<DwarfHeader>> \o [i \in 1..Len(records) |-> DwarfCsvRow(records[i])]

\* What the handler does as a whole: file is the content of the export path
\* before the request and, in the result, after the handler has closed it.
\* The FileResponse returned holds the path, not the content.
export_csv_termeles(exists, rows, file) ==
    LET records == all_rows(rows)
        exit == IF ~exists THEN "raise_operational_error"
                ELSE IF records = <<>> THEN "raise_http_404" ELSE "return"
    IN  [exit |-> exit,
         file |-> IF exit = "return" THEN termeles_csv(records) ELSE file,
         response |->
            IF exit = "raise_operational_error" THEN Resp(500, INTERNAL_ERROR, <<>>)
            ELSE IF exit = "raise_http_404" THEN Resp(404, NO_DATA, <<>>)
            ELSE Resp(200, TERMELES_CSV, <<>>),
         opened |-> 1,
         closed |-> handler_finally(exit)]

export_csv_dwarf(exists, rows, file) ==
    LET records == all_rows(rows)
        exit == IF ~exists THEN "raise_operational_error"
                ELSE IF records = <<>> THEN "raise_http_404" ELSE "return"
    IN  [exit |-> exit,
         file |-> IF exit = "return" THEN dwarf_csv(records) ELSE file,
         response |->
            IF exit = "raise_operational_error" THEN Resp(500, INTERNAL_ERROR, <<>>)
            ELSE IF exit = "raise_http_404" THEN Resp(404, NO_DATA, <<>>)
            ELSE Resp(200, DWARF_CSV, <<>>),
         opened |-> 1,
         closed |-> handler_finally(exit)]

\* (ev, honap, nap) of a before that of b.
DateBefore(a, b) ==
    \/ a.ev < b.ev
    \/ a.ev = b.ev /\ a.honap < b.honap
    \/ a.ev = b.ev /\ a.honap = b.honap /\ a.nap < b.nap

RECURSIVE InsertByDate(_, _)
InsertByDate(sorted, r) ==
    IF sorted = <<>> THEN <<r>>
    ELSE IF DateBefore(r, Head(sorted)) THEN <<r>> \o sorted
    ELSE <<Head(sorted)>> \o InsertByDate(Tail(sorted), r)

RECURSIVE order_by_date(_)
\* .order_by(ev, honap, nap): rows of one date keep their rowid order.
order_by_date(rows) ==
    IF rows = <<>> THEN <<>>
    ELSE InsertByDate(order_by_date(SubSeq(rows, 1, Len(rows) - 1)), rows[Len(rows)])

\* The chart is modelled by what it plots: per record its x label and the
\* three quantities, in the order of the query.
plot_data(exists, rows, file) ==
    LET records == order_by_date(rows)
        exit == IF ~exists THEN "raise_operational_error"
                ELSE IF records = <<>> THEN "raise_http_404" ELSE "return"
        chart == [i \in 1..Len(records) |->
                    <<PlotLabel(records[i]), records[i].aranytermeles,
                      records[i].ezusttermeles, records[i].gyemanttermeles>>]
    IN  [exit |-> exit,
         file |-> IF exit = "return" THEN chart ELSE file,
         response |->
            IF exit = "raise_operational_error" THEN Resp(500, INTERNAL_ERROR, <<>>)
            ELSE IF exit = "raise_http_404" THEN Resp(404, NO_DATA, <<>>)
            ELSE Resp(200, PLOT_PNG, <<>>),
         opened |-> 1,
         closed |-> handler_finally(exit)]

\* No handler has a file open.
Idle == [op |-> "", path |-> "", content |-> <<>>, closed |-> 0,
         response |-> Resp(0, "", <<>>)]

\* ------------------------------------------------------------------- Init
\* A process start: TEST_DATABASE_URL is unset (or names the default file)
\* or names another store; a store is fresh, or a file left by an earlier
\* run whose tables exist. No rows, no export written yet.
Init ==
    /\ DATABASE_URL \in Stores
    /\ tables_exist \in [Stores -> BOOLEAN]
    /\ (DATABASE_URL = DEFAULT_DB => ~tables_exist[ENV_DB])
    /\ termeles = [s \in Stores |-> <<>>]
    /\ dwarf_as_workers = [s \in Stores |-> <<>>]
    /\ files = [p \in Paths |-> <<>>]
    /\ open_sessions = 0
    /\ request = Get("none")
    /\ response = Resp(0, "", <<>>)
    /\ running = Idle
    /\ in_flight = EmptyBag
    /\ file_requests = 0

RowCount(s) == Len(termeles[s]) + Len(dwarf_as_workers[s])

\* Rows inserted and files written so far.
Accepted == RowCount(DatabaseHandler_db_url) + file_requests

\* ---------------------------------------------------------------- actions
\* A handler starts only while no other handler is running: there is one
\* event loop and the handlers never await.

\* POST /submit. DatabaseHandler() connects to its default store and creates
\* the tables there.
SubmitData(datum, arany, ezust, gyemant, commit_ok) ==
    LET db == DatabaseHandler_db_url
        r == insert_termeles(termeles[db], datum, arany, ezust, gyemant, commit_ok)
    IN  /\ running = Idle
        /\ Accepted < MaxAccepted
        /\ tables_exist' = [tables_exist EXCEPT ![db] = TRUE]
        /\ termeles' = [termeles EXCEPT ![db] = r.rows]
        /\ open_sessions' = open_sessions + r.opened - r.closed
        /\ request' = Req("submit", "", datum, arany, ezust, gyemant, commit_ok)
        /\ response' = submit_data(r.exit, arany, ezust, gyemant)
        /\ UNCHANGED <<file_requests, DATABASE_URL, dwarf_as_workers,
                       files, running, in_flight>>

\* POST /submit-dwarf.
SubmitDwarf(name, datum, gold, silver, diamond, commit_ok) ==
    LET db == DatabaseHandler_db_url
        r == insert_dwarf_as_worker(dwarf_as_workers[db], name, datum, gold, silver,
                                    diamond, commit_ok)
    IN  /\ running = Idle
        /\ Accepted < MaxAccepted
        /\ tables_exist' = [tables_exist EXCEPT ![db] = TRUE]
        /\ dwarf_as_workers' = [dwarf_as_workers EXCEPT ![db] = r.rows]
        /\ open_sessions' = open_sessions + r.opened - r.closed
        /\ request' = Req("submit-dwarf", name, datum, gold, silver, diamond, commit_ok)
        /\ response' = submit_dwarf(r.exit, gold, silver, diamond)
        /\ UNCHANGED <<file_requests, DATABASE_URL, termeles, files, running, in_flight>>

\* GET /query_last_production_data, on a SessionLocal session.
QueryProductionData ==
    LET r == query_production_data(tables_exist[DATABASE_URL], termeles[DATABASE_URL])
    IN  /\ running = Idle
        /\ open_sessions' = open_sessions + r.opened - r.closed
        /\ request' = Get("query_last_production_data")
        /\ response' = r.response
        /\ UNCHANGED <<file_requests, DATABASE_URL, tables_exist,
                       termeles, dwarf_as_workers, files,
                       running, in_flight>>

\* GET /query_latest_dwarf_data.
QueryDwarfData ==
    LET r == query_dwarf_data(tables_exist[DATABASE_URL], dwarf_as_workers[DATABASE_URL])
    IN  /\ running = Idle
        /\ open_sessions' = open_sessions + r.opened - r.closed
        /\ request' = Get("query_latest_dwarf_data")
        /\ response' = r.response
        /\ UNCHANGED <<file_requests, DATABASE_URL, tables_exist,
                       termeles, dwarf_as_workers, files,
                       running, in_flight>>

\* A handler that writes a file, from its start: r is what the handler does
\* as a whole. When it raises (no table, no rows) that is before the file is
\* opened and the handler is over in this step. Otherwise the step ends
\* with the file opened for writing, that is truncated, the session open and
\* the content still in the writer's buffer.
StartWriter(op, path, r) ==
    /\ running = Idle
    /\ IF r.exit = "return"
       THEN /\ Accepted < MaxAccepted
            /\ file_requests' = file_requests + 1
            /\ files' = [files EXCEPT ![path] = <<>>]
            /\ open_sessions' = open_sessions + r.opened
            /\ running' = [op |-> op, path |-> path, content |-> r.file,
                           closed |-> r.closed, response |-> r.response]
            /\ request' = Step(op, "open")
            /\ response' = Resp(0, "", <<>>)
       ELSE /\ file_requests' = file_requests
            /\ files' = files
            /\ open_sessions' = open_sessions + r.opened - r.closed
            /\ running' = Idle
            /\ request' = Get(op)
            /\ response' = r.response
    /\ UNCHANGED <<DATABASE_URL, tables_exist, termeles, dwarf_as_workers,
                   in_flight>>

\* GET /export-csv-termeles, up to open(file_path, 'w').
ExportCsvTermeles ==
    StartWriter("export-csv-termeles", TERMELES_CSV,
                export_csv_termeles(tables_exist[DATABASE_URL], termeles[DATABASE_URL],
                                    files[TERMELES_CSV]))

\* GET /export-csv-dwarf, up to open(file_path, 'w').
ExportCsvDwarf ==
    StartWriter("export-csv-dwarf", DWARF_CSV,
                export_csv_dwarf(tables_exist[DATABASE_URL], dwarf_as_workers[DATABASE_URL],
                                 files[DWARF_CSV]))

\* GET /plot-data, up to the opening of the file by savefig.
PlotData ==
    StartWriter("plot-data", PLOT_PNG,
                plot_data(tables_exist[DATABASE_URL], termeles[DATABASE_URL],
                          files[PLOT_PNG]))

\* The running handler closes its file (the buffered content reaches the
\* disk), closes its session in the finally block and returns
\* FileResponse(path); the server hands os.stat(path) to a worker thread.
\* A CSV of the sizes modelled is smaller than the writer's buffer, so no
\* part of it is on disk before the close; a chart that is partly written is
\* not told apart from the empty file.
WriterReturns ==
    /\ running # Idle
    /\ files' = [files EXCEPT ![running.path] = running.content]
    /\ open_sessions' = open_sessions - running.closed
    /\ in_flight' = in_flight (+) SetToBag({[path |-> running.path,
                                              read |-> running.content,
                                              phase |-> "stat", length |-> 0,
                                              body |-> <<>>]})
    /\ running' = Idle
    /\ request' = Step(running.op, "return")
    /\ response' = running.response
    /\ UNCHANGED <<file_requests, DATABASE_URL, tables_exist, termeles, dwarf_as_workers>>

OpOf(path) ==
    IF path = TERMELES_CSV THEN "export-csv-termeles"
    ELSE IF path = DWARF_CSV THEN "export-csv-dwarf" ELSE "plot-data"

\* The FileResponses are sent independently of each other, in no order:
\* in_flight is a bag of them.
Pending == BagToSet(in_flight)

Replace(e, f) == (in_flight (-) SetToBag({e})) (+) SetToBag({f})

Without(e) == in_flight (-) SetToBag({e})

\* FileResponse.__call__, first await: os.stat(path) in a worker thread, at
\* any moment, also while a handler has the file open. The size becomes the
\* Content-Length; sizes are counted in lines. Nothing is sent yet.
StatFile(e) ==
    /\ e.phase = "stat"
    /\ in_flight' = Replace(e, [e EXCEPT !.phase = "headers",
                                         !.length = Len(files[e.path])])
    /\ request' = Step(OpOf(e.path), "stat")
    /\ response' = Resp(0, "", <<>>)
    /\ UNCHANGED <<file_requests, DATABASE_URL, tables_exist,
                   termeles, dwarf_as_workers, files,
                   open_sessions, running>>

\* Back on the event loop: the status line and the headers, with the size
\* os.stat saw as Content-Length, are sent, and the opening and reading of
\* the file is handed to a worker thread. The size is not used again.
SendHeaders(e) ==
    /\ running = Idle
    /\ e.phase = "headers"
    /\ in_flight' = Replace(e, [e EXCEPT !.phase = "file_open", !.length = 0])
    /\ request' = Step(OpOf(e.path), "headers")
    /\ response' = [Resp(200, e.path, <<>>) EXCEPT !.content_length = e.length]
    /\ UNCHANGED <<file_requests, DATABASE_URL, tables_exist,
                   termeles, dwarf_as_workers, files,
                   open_sessions, running>>

\* A worker thread opens the file for reading, at any moment. The path
\* exists since the handler wrote it, and the writers rewrite that same
\* file in place, so what the open file holds is what the path holds.
OpenFile(e) ==
    /\ e.phase = "file_open"
    /\ in_flight' = Replace(e, [e EXCEPT !.phase = "dispatch_read"])
    /\ request' = Step(OpOf(e.path), "file_open")
    /\ response' = Resp(0, "", <<>>)
    /\ UNCHANGED <<file_requests, DATABASE_URL, tables_exist,
                   termeles, dwarf_as_workers, files,
                   open_sessions, running>>

\* Back on the event loop, which no handler is occupying: the request goes
\* on after the open and hands the read of the file to a worker thread.
DispatchRead(e) ==
    /\ running = Idle
    /\ e.phase = "dispatch_read"
    /\ in_flight' = Replace(e, [e EXCEPT !.phase = "read"])
    /\ request' = Step(OpOf(e.path), "dispatch_read")
    /\ response' = Resp(0, "", <<>>)
    /\ UNCHANGED <<file_requests, DATABASE_URL, tables_exist, termeles, dwarf_as_workers,
                   files, open_sessions, running>>

\* The worker thread reads the file, at any moment after the read was handed
\* to it, as the file is at that moment, also while a handler that started
\* since has it open for writing. The files modelled are smaller than the
\* chunk read at once, so this read is the only one.
ReadFile(e) ==
    /\ e.phase = "read"
    /\ in_flight' = Replace(e, [e EXCEPT !.phase = "body", !.body = files[e.path]])
    /\ request' = Step(OpOf(e.path), "read")
    /\ response' = Resp(0, "", <<>>)
    /\ UNCHANGED <<file_requests, DATABASE_URL, tables_exist,
                   termeles, dwarf_as_workers, files,
                   open_sessions, running>>

\* What is left of a FileResponse whose body was sent: the file to close.
Closing(path) ==
    [path |-> path, read |-> <<>>, phase |-> "close", length |-> 0, body |-> <<>>]

\* Back on the event loop: what the worker thread read is sent as the body,
\* whatever the file holds by now.
SendBody(e) ==
    /\ running = Idle
    /\ e.phase = "body"
    /\ in_flight' = Replace(e, Closing(e.path))
    /\ request' = Step(OpOf(e.path), "body")
    /\ response' = Resp(200, e.path, e.body)
    /\ UNCHANGED <<file_requests, DATABASE_URL, tables_exist,
                   termeles, dwarf_as_workers, files,
                   open_sessions, running>>

\* A worker thread closes the file; the request is over.
CloseFile(e) ==
    /\ e.phase = "close"
    /\ in_flight' = Without(e)
    /\ request' = Step(OpOf(e.path), "close")
    /\ response' = Resp(0, "", <<>>)
    /\ UNCHANGED <<file_requests, DATABASE_URL, tables_exist,
                   termeles, dwarf_as_workers, files,
                   open_sessions, running>>

Next ==
    \/ \E s \in Submissions : \E commit_ok \in CommitOutcomes(s) :
          SubmitData(s[1], s[2], s[3], s[4], commit_ok)
    \/ \E n \in Names, s \in Submissions : \E commit_ok \in CommitOutcomes(s) :
          SubmitDwarf(n, s[1], s[2], s[3], s[4], commit_ok)
    \/ QueryProductionData
    \/ QueryDwarfData
    \/ ExportCsvTermeles
    \/ ExportCsvDwarf
    \/ PlotData
    \/ WriterReturns
    \/ \E e \in Pending : StatFile(e)
    \/ \E e \in Pending : SendHeaders(e)
    \/ \E e \in Pending : OpenFile(e)
    \/ \E e \in Pending : DispatchRead(e)
    \/ \E e \in Pending : ReadFile(e)
    \/ \E e \in Pending : SendBody(e)
    \/ \E e \in Pending : CloseFile(e)

Spec == Init /\ [][Next]_vars

\* ----------------------------------------------------------------- claims
\* What the claims call a valid submission: a date that parses as YYYY-MM-DD
\* and three non-negative quantities.
Negative(req) == req.gold < 0 \/ req.silver < 0 \/ req.diamond < 0
Valid(req) == strptime(req.datum).ok /\ ~Negative(req)

Inserts == {"submit", "submit-dwarf"}
Latests == {"query_last_production_data", "query_latest_dwarf_data"}
Exports == {"export-csv-termeles", "export-csv-dwarf"}

\* The table a request is about, in store s.
TableOf(op, s) ==
    IF op \in {"submit", "query_last_production_data", "export-csv-termeles", "plot-data"}
    THEN termeles[s] ELSE dwarf_as_workers[s]

\* What the latest query of the table an insert request writes would answer.
LatestAnswer(op) ==
    IF op = "submit"
    THEN query_production_data(tables_exist[DATABASE_URL], termeles[DATABASE_URL]).response
    ELSE query_dwarf_data(tables_exist[DATABASE_URL],
                          dwarf_as_workers[DATABASE_URL]).response

Values(req) == <<req.gold, req.silver, req.diamond>>

\* C1: a valid submission (whose commit the store accepts) is answered 200,
\* adds one row with an identity above every earlier one, and is what the
\* latest query of its table then returns; a rejected submission leaves the
\* values the latest query returns as they were.
C1_Step ==
    \A op \in Inserts :
        request'.op = op =>
            LET before == TableOf(op, DatabaseHandler_db_url)
                after == TableOf(op, DatabaseHandler_db_url)'
            IN  IF Valid(request') /\ request'.commit_ok
                THEN /\ response'.status = 200
                     /\ Len(after) = Len(before) + 1
                     /\ \A i \in 1..Len(before) : after[Len(after)].id > before[i].id
                     /\ LatestAnswer(op)' = Resp(200, "", Values(request'))
                ELSE LatestAnswer(op).status = 200 => LatestAnswer(op)' = LatestAnswer(op)

\* C1: every step satisfies C1_Step: the latest query returns the most recent
\* valid submission, whose row has the largest identity.
C1_LatestIsLastValidSubmission == [][C1_Step]_vars

\* C2: a POST /submit with a negative quantity is answered 500 and leaves
\* the termeles table of every store with the rows it had.
C2_Step ==
    (request'.op = "submit" /\ Negative(request')) =>
        (response'.status = 500 /\ termeles' = termeles)

\* C2: every step satisfies C2_Step: a negative POST /submit is answered 500
\* and adds no row.
C2_NegativeSubmitRejected == [][C2_Step]_vars

C2_Witness ==
    /\ request.op = "submit" /\ Negative(request)
    /\ response.status = 500
    /\ termeles[DatabaseHandler_db_url] # <<>>

\* C3: a POST /submit with an unparseable date and non-negative quantities
\* is answered 500, without the success message, and adds no row.
C3_Step ==
    (request'.op = "submit" /\ ~strptime(request'.datum).ok /\ ~Negative(request')) =>
        /\ response'.status = 500
        /\ response'.detail # INSERTED
        /\ termeles' = termeles

\* C3: every step satisfies C3_Step: a POST /submit with an unparseable date
\* is answered 500 without the success message and adds no row.
C3_BadDateSubmitRejected == [][C3_Step]_vars

\* C4: a POST /submit-dwarf that fails validation is answered 500 (not 400,
\* not 200) and leaves the dwarf_as_workers table of every store as it was.
C4_Step ==
    (request'.op = "submit-dwarf" /\ ~Valid(request')) =>
        /\ response'.status = 500
        /\ response'.status \notin {200, 400}
        /\ dwarf_as_workers' = dwarf_as_workers

\* C4: every step satisfies C4_Step: an invalid POST /submit-dwarf is answered
\* 500, never 400 or 200, and adds no row.
C4_InvalidDwarfAnswered500 == [][C4_Step]_vars

C4_Witness ==
    /\ request.op = "submit-dwarf"
    /\ ~strptime(request.datum).ok /\ ~Negative(request)
    /\ response.status = 500
    /\ dwarf_as_workers[DatabaseHandler_db_url] # <<>>

\* C5: a latest query on a table without rows, a fresh store included, is
\* answered 404 "No data found".
C5_EmptyLatestIs404 ==
    (request.op \in Latests /\ TableOf(request.op, DATABASE_URL) = <<>>) =>
        (response.status = 404 /\ response.detail = NO_DATA)

\* C6: an export of a table without rows answers 404 "No data found", leaves
\* the export path as it was (no file with only a header) and leaves no file
\* response to send.
C6_Step ==
    \A op \in Exports :
        (/\ request'.op = op
         /\ request'.step \in {"handler", "open"}
         /\ TableOf(op, DATABASE_URL) = <<>>) =>
            /\ response'.status = 404
            /\ response'.detail = NO_DATA
            /\ response'.data = <<>>
            /\ files' = files
            /\ running' = Idle
            /\ in_flight' = in_flight

\* C6: every step satisfies C6_Step: an export of a table without rows is
\* answered 404 and writes and sends no file.
C6_EmptyExportIs404 == [][C6_Step]_vars

\* C7: an export of a table with rows does not end in an error: it answers
\* 200 with a file response, and the file the handler has written when it
\* returns is the fixed header followed by one line per row of the table,
\* the i-th line carrying the fields of the i-th inserted row, identities
\* ascending.
C7_File(op) == IF op = "export-csv-termeles" THEN files[TERMELES_CSV] ELSE files[DWARF_CSV]

C7_Header(op) == IF op = "export-csv-termeles" THEN TermelesHeader ELSE DwarfHeader

C7_SameFields(op, line, row) ==
    IF op = "export-csv-termeles"
    THEN /\ Len(line) = 7
         /\ line[1] = row.id /\ line[2] = row.ev /\ line[3] = row.honap
         /\ line[4] = row.nap /\ line[5] = row.aranytermeles
         /\ line[6] = row.ezusttermeles /\ line[7] = row.gyemanttermeles
    ELSE /\ Len(line) = 6
         /\ line[1] = row.id /\ line[2] = row.name
         /\ strptime(line[3]).ok
         /\ <<strptime(line[3]).year, strptime(line[3]).month,
              strptime(line[3]).day>> = row.date
         /\ Len(line[3]) = 10
         /\ line[4] = row.gold /\ line[5] = row.silver /\ line[6] = row.diamond

\* C7: an export of a table with rows is not answered with an error, and
\* when its handler returns, the file is the header and one line per row, in
\* ascending identity order, the order of insertion.
C7_ExportMatchesTable ==
    \A op \in Exports :
        /\ (request.op = op /\ TableOf(op, DATABASE_URL) # <<>>) =>
                request.step # "handler"
        /\ (request.op = op /\ request.step = "return") =>
            LET rows == TableOf(op, DATABASE_URL)
                file == C7_File(op)
            IN  /\ rows # <<>>
                /\ response.status = 200
                /\ response.detail = (IF op = "export-csv-termeles"
                                       THEN TERMELES_CSV ELSE DWARF_CSV)
                /\ Len(file) = Len(rows) + 1
                /\ file[1] = C7_Header(op)
                /\ \A i \in 1..Len(rows) : C7_SameFields(op, file[i + 1], rows[i])
                /\ \A i, j \in 1..Len(rows) : i < j => file[i + 1][1] < file[j + 1][1]

C7_Witness ==
    /\ request.op = "export-csv-dwarf"
    /\ request.step = "return"
    /\ Len(dwarf_as_workers[DATABASE_URL]) >= 2
    /\ response.status = 200
    /\ Len(files[DWARF_CSV]) = Len(dwarf_as_workers[DATABASE_URL]) + 1

\* C8: while no handler is running no session is open: every handler closed
\* the session it opened, whichever exit it took.
C8_NoSessionLeftOpen == running = Idle => open_sessions = 0

C8_Witness ==
    /\ request.op \in Inserts
    /\ Valid(request) /\ ~request.commit_ok
    /\ response.status = 500
    /\ open_sessions = 0

\* C9: every step leaves each table of each store unchanged or extended at
\* its end by one complete row; only an insert handler extends, and only
\* its own table.
C9_Complete(row) ==
    \/ DOMAIN row = {"id", "ev", "honap", "nap", "aranytermeles", "ezusttermeles",
                     "gyemanttermeles"}
    \/ DOMAIN row = {"id", "name", "date", "gold", "silver", "diamond"}

C9_Extended(old, new) ==
    \/ new = old
    \/ /\ Len(new) = Len(old) + 1
       /\ SubSeq(new, 1, Len(old)) = old
       /\ C9_Complete(new[Len(new)])

C9_Step ==
    /\ \A s \in Stores :
          /\ C9_Extended(termeles[s], termeles'[s])
          /\ C9_Extended(dwarf_as_workers[s], dwarf_as_workers'[s])
    /\ request'.op # "submit" => termeles' = termeles
    /\ request'.op # "submit-dwarf" => dwarf_as_workers' = dwarf_as_workers

\* C9: every step satisfies C9_Step: tables are only ever extended by one
\* complete row, by an insert.
C9_AppendOnly == [][C9_Step]_vars

C9_Witness ==
    /\ request.op = "submit"
    /\ response.status = 200
    /\ Len(termeles[DatabaseHandler_db_url]) >= 2

\* C10: whatever DATABASE_URL is, a row committed by a submission answered
\* 200 went to the store the queries read, and the latest query shows it.
C10_InsertsVisibleToQueries ==
    \A op \in Inserts :
        (request.op = op /\ response.status = 200 /\ Valid(request)) =>
            /\ DatabaseHandler_db_url = DATABASE_URL
            /\ LatestAnswer(op) = Resp(200, "", Values(request))

\* C11: with exports dispatched concurrently and interleaved with inserts,
\* the file sent for an export request is the header and the rows that this
\* request itself read, never content another request wrote to the path.
C11_Step ==
    \A e \in Pending :
        (/\ e.phase = "body"
         /\ e.path \in {TERMELES_CSV, DWARF_CSV}
         /\ request'.step = "body"
         /\ in_flight' = Replace(e, Closing(e.path))) =>
            response'.data = e.read

\* C11: every step that sends the body of an export sends what the handler
\* of that request read from the table and wrote.
C11_DeliveredIsOwnRead == [][C11_Step]_vars

====
